---- MODULE Spec2Model ----
(***************************************************************************)
(* Departure scheduling and refresh controller of the LED train board      *)
(* (src/main.py): the render loop, the background fetch worker, the data   *)
(* source arbiter, the rotation / auto-advance logic, the ticker and the   *)
(* switch debouncer.                                                       *)
(*                                                                         *)
(* Representation.                                                         *)
(*  - A text is a sequence of one-character strings; a destination is a    *)
(*    sequence of character codes, compared as Python compares strings.    *)
(*  - A service is the tuple <<sched, destination, status, calling>>.      *)
(*  - Python's None is the empty sequence <<>> and a present value v is    *)
(*    <<v>> (schedule seconds, mailbox slot, wall clock reading).  The     *)
(*    local cache is only ever None or a non-empty list, and the code      *)
(*    tests it for truthiness only, so None is the empty list there.       *)
(*  - Indices into lists are 0-based as in the source.                     *)
(***************************************************************************)
EXTENDS Integers, Sequences, FiniteSets, TLC

\* ------------------------------------------------------------------------
\* Bounds of the model
\* ------------------------------------------------------------------------
MaxLen == 2       \* longest service list a data source returns
MaxIter == 2      \* render-loop iterations explored
MaxText == 5      \* longest scheduled-time text parsed

\* ------------------------------------------------------------------------
\* Configuration (src/main.py, section "Configuration")
\* ------------------------------------------------------------------------
FETCH_INTERVAL == 30
SERVICE_ROTATE_INTERVAL == 300
BUTTON_DEBOUNCE_MS == 200
TICKER_MS == 120
TICKER_STEP_PX == 1
UNKNOWN_SCHED_SECONDS == 86400
\* MicroPython's ticks_ms() counts modulo 2^30
TICKS_PERIOD == 1073741824

None == <<>>
Some(v) == <<v>>
IsNone(o) == o = <<>>
Val(o) == o[1]

\* ------------------------------------------------------------------------
\* Text helpers
\* ------------------------------------------------------------------------
Digits == {"0", "1", "2", "3", "4", "5", "6", "7", "8", "9"}

DigitVal(ch) ==
    CASE ch = "0" -> 0 [] ch = "1" -> 1 [] ch = "2" -> 2 [] ch = "3" -> 3
      [] ch = "4" -> 4 [] ch = "5" -> 5 [] ch = "6" -> 6 [] ch = "7" -> 7
      [] ch = "8" -> 8 [] ch = "9" -> 9

isdigit(ch) == ch \in Digits

RECURSIVE lstrip(_)
lstrip(s) == IF s # <<>> /\ Head(s) = " " THEN lstrip(Tail(s)) ELSE s

RECURSIVE rstrip(_)
rstrip(s) ==
    IF s # <<>> /\ s[Len(s)] = " " THEN rstrip(SubSeq(s, 1, Len(s) - 1)) ELSE s

strip(s) == rstrip(lstrip(s))

\* position of the first ":" of s, 0 if there is none
RECURSIVE ColonPos(_, _)
ColonPos(s, i) ==
    IF i > Len(s) THEN 0
    ELSE IF s[i] = ":" THEN i
    ELSE ColonPos(s, i + 1)

RECURSIVE DigitsValue(_, _)
DigitsValue(s, acc) ==
    IF s = <<>> THEN acc ELSE DigitsValue(Tail(s), acc * 10 + DigitVal(Head(s)))

\* int(text): surrounding blanks and one sign are accepted, then digits
\* only; anything else raises ValueError (None here).
ParseDigits(neg, body) ==
    IF body = <<>> \/ \E i \in 1..Len(body) : ~isdigit(body[i])
    THEN None
    ELSE Some(IF neg THEN 0 - DigitsValue(body, 0) ELSE DigitsValue(body, 0))

ParseSigned(t) ==
    ParseDigits(t # <<>> /\ Head(t) = "-",
                IF t # <<>> /\ Head(t) \in {"-", "+"} THEN Tail(t) ELSE t)

ParseInt(s) == ParseSigned(strip(s))

\* the loop of parse_sched_to_seconds collecting at most two digit characters
RECURSIVE CollectDigits(_, _)
CollectDigits(s, digits) ==
    IF s = <<>> \/ Len(digits) = 2 THEN digits
    ELSE IF isdigit(Head(s)) THEN CollectDigits(Tail(s), Append(digits, Head(s)))
    ELSE CollectDigits(Tail(s), digits)

\* the hour taken as it is, not modulo 24
ParseMinuteNoWrap(hour, minute) ==
    IF minute < 0 \/ minute > 59 THEN None
    ELSE Some(hour * 3600 + minute * 60)

\* parse_sched_to_seconds from the range test of the minute on
ParseMinute(hour, minute) ==
    IF minute < 0 \/ minute > 59 THEN None
    ELSE Some((hour % 24) * 3600 + minute * 60)

\* hour: int(hour_part) or None where it raises; digits: the minute digits
ParseParts(hour, digits) ==
    IF IsNone(hour) THEN None
    ELSE IF Len(digits) = 0 THEN None
    ELSE ParseMinute(Val(hour), DigitsValue(digits, 0))

\* text.split(":", 1) at the first colon, position p (0: no colon)
ParseSplit(text, p) ==
    IF text = <<>> \/ p = 0 THEN None
    ELSE ParseParts(ParseInt(SubSeq(text, 1, p - 1)),
                    CollectDigits(SubSeq(text, p + 1, Len(text)), <<>>))

ParseText(text) == ParseSplit(text, ColonPos(text, 1))

parse_sched_to_seconds(value) == ParseText(strip(value))

\* ------------------------------------------------------------------------
\* Ordering of services
\* ------------------------------------------------------------------------
\* Python's < on strings, on sequences of character codes
RECURSIVE StrLess(_, _)
StrLess(a, b) ==
    IF b = <<>> THEN FALSE
    ELSE IF a = <<>> THEN TRUE
    ELSE IF Head(a) # Head(b) THEN Head(a) < Head(b)
    ELSE StrLess(Tail(a), Tail(b))

SortKey(sched_seconds, destination) ==
    <<IF IsNone(sched_seconds) THEN UNKNOWN_SCHED_SECONDS ELSE Val(sched_seconds),
      destination>>

service_sort_key(service) ==
    SortKey(parse_sched_to_seconds(service[1]), service[2])

\* Python's < on the key tuples
KeyLess(k1, k2) == k1[1] < k2[1] \/ (k1[1] = k2[1] /\ StrLess(k1[2], k2[2]))

\* sorted(services, key=service_sort_key): a stable sort
RECURSIVE InsertSorted(_, _)
InsertSorted(x, s) ==
    IF s = <<>> THEN <<x>>
    ELSE IF KeyLess(service_sort_key(x), service_sort_key(Head(s)))
         THEN <<x>> \o s
         ELSE <<Head(s)>> \o InsertSorted(x, Tail(s))

RECURSIVE SortFrom(_, _)
SortFrom(rest, acc) ==
    IF rest = <<>> THEN acc ELSE SortFrom(Tail(rest), InsertSorted(Head(rest), acc))

\* the list in the order the source delivered it
unsorted(services) == services

sorted(services) == SortFrom(services, <<>>)

ScheduleSeconds(services) ==
    [i \in 1..Len(services) |-> parse_sched_to_seconds(services[i][1])]

\* the loop of find_service_index_for_time over svc_schedule_seconds from
\* (0-based) position idx on
RECURSIVE FindLoop(_, _, _, _, _)
FindLoop(scheds, idx, fallback_idx, lowest_seen, now_secs) ==
    IF idx >= Len(scheds) THEN fallback_idx
    ELSE
      LET sched_secs == scheds[idx + 1]
      IN  IF IsNone(sched_secs)
          THEN FindLoop(scheds, idx + 1, fallback_idx, lowest_seen, now_secs)
          ELSE
            LET lower == IsNone(lowest_seen) \/ Val(sched_secs) < Val(lowest_seen)
                fb == IF lower THEN idx ELSE fallback_idx
                low == IF lower THEN sched_secs ELSE lowest_seen
            IN  IF ~IsNone(now_secs) /\ Val(sched_secs) >= Val(now_secs)
                THEN idx
                ELSE FindLoop(scheds, idx + 1, fb, low, now_secs)

find_service_index_for_time(services, scheds, now_secs) ==
    IF services = <<>> \/ scheds = <<>> THEN 0
    ELSE FindLoop(scheds, 0, 0, None, now_secs)

\* ------------------------------------------------------------------------
\* State
\* ------------------------------------------------------------------------
VARIABLES
    \* globals of src/main.py
    svc_state, svc_services, current_service_idx,
    ticker_text, ticker_w, ticker_px,
    last_fetch_ms, last_scroll_ms, last_rotate_ms, last_source, wifi_ok,
    last_button_state, last_button_ms,
    last_source_button_state, last_source_button_ms,
    svc_schedule_seconds, refresh_thread_running, pending_refresh_result,
    prefer_remote, local_services_cached,
    \* configuration and platform, fixed for a run
    REMOTE_JSON_URL,      \* TRUE: an endpoint is configured; FALSE: None
    thread_available,     \* FALSE: the import of _thread failed
    \* the render loop: its position, the local `now` of main(), the
    \* position to go on from once start_async_refresh has returned, and
    \* what apply_fetched_services returned in the loop's last step ("none":
    \* the step did not call it)
    pc, now, ret, applied,
    \* the background worker: its position and the locals of its fetch
    wpc, wl,
    \* the environment: the tick counter, iterations made, and the values
    \* the data sources, the clock and the switches are drawn from
    ticks, iters, env

progVars == <<svc_state, svc_services, current_service_idx,
              ticker_text, ticker_w, ticker_px,
              last_fetch_ms, last_scroll_ms, last_rotate_ms, last_source, wifi_ok,
              last_button_state, last_button_ms,
              last_source_button_state, last_source_button_ms,
              svc_schedule_seconds, refresh_thread_running, pending_refresh_result,
              prefer_remote, local_services_cached>>

vars == <<progVars, REMOTE_JSON_URL, thread_available, pc, now, ret, applied,
          wpc, wl, ticks, iters, env>>

\* the globals the render loop works on, gathered in one record; pc is the
\* render loop's position, "saf" meaning: inside start_async_refresh, after
\* the test of pending_refresh_result and before that of
\* refresh_thread_running
G == [svc_state |-> svc_state, svc_services |-> svc_services,
      current_service_idx |-> current_service_idx,
      ticker_text |-> ticker_text, ticker_w |-> ticker_w, ticker_px |-> ticker_px,
      last_fetch_ms |-> last_fetch_ms, last_scroll_ms |-> last_scroll_ms,
      last_rotate_ms |-> last_rotate_ms, last_source |-> last_source,
      wifi_ok |-> wifi_ok,
      last_button_state |-> last_button_state, last_button_ms |-> last_button_ms,
      last_source_button_state |-> last_source_button_state,
      last_source_button_ms |-> last_source_button_ms,
      svc_schedule_seconds |-> svc_schedule_seconds,
      refresh_thread_running |-> refresh_thread_running,
      pending_refresh_result |-> pending_refresh_result,
      prefer_remote |-> prefer_remote,
      local_services_cached |-> local_services_cached,
      url |-> REMOTE_JSON_URL, threads |-> thread_available,
      pc |-> pc, applied |-> "none"]

SetGlobals(g) ==
    /\ svc_state' = g.svc_state
    /\ svc_services' = g.svc_services
    /\ current_service_idx' = g.current_service_idx
    /\ ticker_text' = g.ticker_text
    /\ ticker_w' = g.ticker_w
    /\ ticker_px' = g.ticker_px
    /\ last_fetch_ms' = g.last_fetch_ms
    /\ last_scroll_ms' = g.last_scroll_ms
    /\ last_rotate_ms' = g.last_rotate_ms
    /\ last_source' = g.last_source
    /\ wifi_ok' = g.wifi_ok
    /\ last_button_state' = g.last_button_state
    /\ last_button_ms' = g.last_button_ms
    /\ last_source_button_state' = g.last_source_button_state
    /\ last_source_button_ms' = g.last_source_button_ms
    /\ svc_schedule_seconds' = g.svc_schedule_seconds
    /\ refresh_thread_running' = g.refresh_thread_running
    /\ pending_refresh_result' = g.pending_refresh_result
    /\ prefer_remote' = g.prefer_remote
    /\ local_services_cached' = g.local_services_cached
    /\ applied' = g.applied

\* ------------------------------------------------------------------------
\* Time
\* ------------------------------------------------------------------------
\* time.ticks_diff(a, b): the signed difference modulo the tick period
ticks_diff(a, b) ==
    ((a - b + TICKS_PERIOD \div 2) % TICKS_PERIOD) - TICKS_PERIOD \div 2

\* hh * 3600 + mm * 60 + ss of a reading <<hh, mm, ss>> of get_local_time
NowSecs(t) == t[1] * 3600 + t[2] * 60 + t[3]

\* ------------------------------------------------------------------------
\* Data source arbiter
\* ------------------------------------------------------------------------
\* locals of one run of fetch_services_payload
FetchLocals == [services |-> <<>>, source_label |-> "none", attempted_remote |-> FALSE]

load_local_from_cache(fl, cache) ==
    IF cache # <<>>
    THEN [fl EXCEPT !.source_label = "local", !.services = cache]
    ELSE [fl EXCEPT !.services = <<>>]

\* local is what load_local_services() reads from local storage
load_local_from_disk(fl, local) ==
    IF local # <<>>
    THEN [fl EXCEPT !.source_label = "local", !.services = local]
    ELSE [fl EXCEPT !.services = <<>>]

\* the cache after load_local_from_disk
CacheAfterDisk(cache, local) == IF local # <<>> THEN local ELSE cache

\* remote is what load_remote_services() would return
load_remote(fl, url, wifi, remote) ==
    IF ~url \/ ~wifi THEN [fl EXCEPT !.services = <<>>]
    ELSE IF remote # <<>>
         THEN [fl EXCEPT !.attempted_remote = TRUE, !.source_label = "remote",
                         !.services = remote]
         ELSE [fl EXCEPT !.attempted_remote = TRUE, !.services = <<>>]

\* wifi_drop raised by any remote attempt, whatever it yielded
WifiDropAttempted(fl) == fl.attempted_remote

WifiDrop(fl) == fl.attempted_remote /\ fl.source_label # "remote"

FetchResult(fl) ==
    [services |-> fl.services, source |-> fl.source_label,
     wifi_drop |-> WifiDrop(fl), error |-> None]

\* the three loads of fetch_services_payload in the order of the branch taken
RemoteFirst(prefer, url) == prefer /\ url

\* the local-first order whatever the preference
FetchOrderLocalFirst(remote_first) == <<"cache", "disk", "remote">>

FetchOrder(remote_first) ==
    IF remote_first THEN <<"remote", "cache", "disk">>
    ELSE <<"cache", "disk", "remote">>

\* one load; a load is reached only while services is still empty
LoadStep(kind, fl, cache, url, wifi, inp) ==
    CASE kind = "remote" -> load_remote(fl, url, wifi, inp.remote)
      [] kind = "cache" -> load_local_from_cache(fl, cache)
      [] kind = "disk" -> load_local_from_disk(fl, inp.disk)

CacheStep(kind, cache, inp) ==
    IF kind = "disk" THEN CacheAfterDisk(cache, inp.disk) ELSE cache

\* fetch_services_payload run to its end on the render loop's thread:
\* the result and the cache it leaves
RECURSIVE FetchFrom(_, _, _, _, _, _, _)
FetchFrom(order, k, fl, cache, url, wifi, inp) ==
    IF k > 3 \/ fl.services # <<>>
    THEN [result |-> FetchResult(fl), cache |-> cache]
    ELSE FetchFrom(order, k + 1,
                   LoadStep(order[k], fl, cache, url, wifi, inp),
                   CacheStep(order[k], cache, inp), url, wifi, inp)

fetch_services_payload(g, inp) ==
    FetchFrom(FetchOrder(RemoteFirst(g.prefer_remote, g.url)), 1, FetchLocals,
              g.local_services_cached, g.url, g.wifi_ok, inp)

\* ------------------------------------------------------------------------
\* Scheduled times and the compiled-in service
\* ------------------------------------------------------------------------
T0900 == <<"0", "9", ":", "0", "0">>
T1224 == <<"1", "2", ":", "2", "4">>
T1400 == <<"1", "4", ":", "0", "0">>
TBad == <<"b", "a", "d">>

\* DEFAULT_SERVICE as the tuple main() builds; the destination by its
\* initials, the calling points by the width their ticker text measures
DefaultService == <<T1224, <<76, 69>>, "On time", 4>>

\* ------------------------------------------------------------------------
\* Applying services
\* ------------------------------------------------------------------------
\* the text is kept as the prefix and the calling points it was built from
build_ticker_text(raw) == <<"CALLING AT: ", raw>>

\* graphics.measure_text: the display's answer for the ticker text; the
\* calling points of a modelled service stand for the width they measure
measure_text(text) == text[2]

Max(a, b) == IF a >= b THEN a ELSE b

apply_service(g, service) ==
    [g EXCEPT !.svc_state = service,
              !.ticker_text = build_ticker_text(service[4]),
              !.ticker_w = Max(1, measure_text(build_ticker_text(service[4]))),
              !.ticker_px = 0]

\* the index merely reset on a refresh
IndexReset(services, scheds, clock) == 0

IndexAfterRefresh(services, scheds, clock) ==
    IF IsNone(clock) THEN 0
    ELSE find_service_index_for_time(services, scheds, Some(NowSecs(clock)))

\* the cache taking every applied list, whatever its label
CacheAfterApplyAny(cache, svcs, source_label) == svcs

\* the cache after apply_services_payload
CacheAfterApply(cache, svcs, source_label) ==
    IF source_label = "local" THEN svcs ELSE cache

\* apply_services_payload from the assignment of current_service_idx on:
\* svcs is the sorted list, scheds its schedule seconds, idx the index
ApplyIndexed(g, svcs, scheds, idx, source_label, inp) ==
    [apply_service([g EXCEPT !.svc_services = svcs,
                             !.svc_schedule_seconds = scheds,
                             !.current_service_idx = idx],
                   svcs[idx + 1])
       EXCEPT !.last_source = IF source_label = "none" THEN "defaults"
                              ELSE source_label,
              !.local_services_cached = CacheAfterApply(@, svcs, source_label),
              !.last_rotate_ms = inp.ticks]

ApplyScheduled(g, svcs, scheds, source_label, inp) ==
    ApplyIndexed(g, svcs, scheds, IndexAfterRefresh(svcs, scheds, inp.clock),
                 source_label, inp)

ApplySorted(g, svcs, source_label, inp) ==
    ApplyScheduled(g, svcs, ScheduleSeconds(svcs), source_label, inp)

\* apply_services_payload leaving the index as it was instead of resolving
\* it against the new list (the entry shown is the one at the old index)
KeepIndex(g, svcs, source_label, inp) ==
    [ApplyIndexed(g, svcs, ScheduleSeconds(svcs),
                  g.current_service_idx % Len(svcs), source_label, inp)
       EXCEPT !.current_service_idx = g.current_service_idx]

apply_services_payload_keep_index(g, services, source_label, inp) ==
    KeepIndex(g, sorted(services), source_label, inp)

apply_services_payload(g, services, source_label, inp) ==
    ApplySorted(g, sorted(services), source_label, inp)

\* apply_fetched_services falling back to the compiled-in default when the
\* result holds no service
apply_fetched_services_default(g, result, inp) ==
    LET g1 == IF result.wifi_drop THEN [g EXCEPT !.wifi_ok = FALSE] ELSE g
        services == IF result.services = <<>> THEN <<DefaultService>>
                    ELSE result.services
    IN  [apply_services_payload(g1, services, result.source, inp)
            EXCEPT !.applied = IF result.services = <<>> THEN "False" ELSE "True"]

apply_fetched_services(g, result, inp) ==
    LET g1 == IF result.wifi_drop THEN [g EXCEPT !.wifi_ok = FALSE] ELSE g
    IN  IF result.services = <<>> THEN [g1 EXCEPT !.applied = "False"]
        ELSE [apply_services_payload(g1, result.services, result.source, inp)
                EXCEPT !.applied = "True"]

\* f: the result of the fetch and the cache it left
ApplyFetch(g, f, inp) ==
    apply_fetched_services([g EXCEPT !.local_services_cached = f.cache],
                           f.result, inp)

refresh_service(g, inp) == ApplyFetch(g, fetch_services_payload(g, inp), inp)

\* ------------------------------------------------------------------------
\* Refresh scheduler and the render loop's half of the async coordinator
\* ------------------------------------------------------------------------
\* trigger_fetch up to the first two tests of start_async_refresh.  With a
\* worker facility and an empty mailbox the render loop is left at "saf",
\* in front of the test of refresh_thread_running (TriggerFetchResume goes
\* on from there); in every other case trigger_fetch runs to its end.
\* trigger_fetch gets past its three early returns
\* trigger_fetch without the test of the time since the last fetch
FetchDueNoInterval(url, prefer, last_fetch, now_ms, force) ==
    IF ~url THEN FALSE
    ELSE IF ~force /\ ~prefer THEN FALSE
    ELSE TRUE

FetchDue(url, prefer, last_fetch, now_ms, force) ==
    LET elapsed == ticks_diff(now_ms, last_fetch)
    IN  IF ~url THEN FALSE
        ELSE IF ~force /\ ~prefer THEN FALSE
        ELSE IF ~force /\ FETCH_INTERVAL # 0
                /\ elapsed >= 0 /\ elapsed < FETCH_INTERVAL * 1000 THEN FALSE
        ELSE TRUE

\* trigger_fetch leaving last_fetch_ms alone when a result is waiting
trigger_fetch_unstamped(g, now_ms, force, inp) ==
    IF ~FetchDue(g.url, g.prefer_remote, g.last_fetch_ms, now_ms, force) THEN g
        ELSE
          LET g1 == IF ~g.wifi_ok THEN [g EXCEPT !.wifi_ok = inp.connect] ELSE g
          IN  IF ~g1.threads
              THEN [refresh_service(g1, inp) EXCEPT !.last_fetch_ms = now_ms]
              ELSE IF g1.pending_refresh_result # None
              THEN g1
              ELSE [g1 EXCEPT !.pc = "saf"]

trigger_fetch(g, now_ms, force, inp) ==
    IF ~FetchDue(g.url, g.prefer_remote, g.last_fetch_ms, now_ms, force) THEN g
        ELSE
          LET g1 == IF ~g.wifi_ok THEN [g EXCEPT !.wifi_ok = inp.connect] ELSE g
          IN  IF ~g1.threads
              THEN [refresh_service(g1, inp) EXCEPT !.last_fetch_ms = now_ms]
              ELSE IF g1.pending_refresh_result # None
              THEN [g1 EXCEPT !.last_fetch_ms = now_ms]
              ELSE [g1 EXCEPT !.pc = "saf"]

toggle_data_source(g, now_ms, inp) ==
    IF ~g.prefer_remote /\ ~g.url THEN g
    ELSE
      LET g1 == [g EXCEPT !.prefer_remote = ~g.prefer_remote]
      IN  IF g1.prefer_remote
          THEN trigger_fetch(g1, now_ms, TRUE, inp)
          ELSE [refresh_service(g1, inp) EXCEPT !.last_fetch_ms = now_ms]

poll_async_refresh(g, inp) ==
    IF g.pending_refresh_result = None THEN g
    ELSE apply_fetched_services([g EXCEPT !.pending_refresh_result = None],
                                Val(g.pending_refresh_result), inp)

\* ------------------------------------------------------------------------
\* Rotation and auto-advance
\* ------------------------------------------------------------------------
\* advance_service that shows the entry it is at again
advance_service_stay(g, now_ms, inp) ==
    IF Len(g.svc_services) <= 1 THEN g
    ELSE
      LET idx == g.current_service_idx
          g1 == apply_service([g EXCEPT !.current_service_idx = idx],
                              g.svc_services[idx + 1])
      IN  trigger_fetch([g1 EXCEPT !.last_rotate_ms = now_ms], now_ms, FALSE, inp)

advance_service(g, now_ms, inp) ==
    IF Len(g.svc_services) <= 1 THEN g
    ELSE
      LET idx == (g.current_service_idx + 1) % Len(g.svc_services)
          g1 == apply_service([g EXCEPT !.current_service_idx = idx],
                              g.svc_services[idx + 1])
      IN  trigger_fetch([g1 EXCEPT !.last_rotate_ms = now_ms], now_ms, FALSE, inp)

\* needs_change without the test that the current departure has passed
NeedsChangeEarly(services, current_sched, target_idx, idx, now_secs) ==
    IF IsNone(current_sched)
    THEN Len(services) > 1 /\ target_idx # idx
    ELSE target_idx # idx

\* needs_change that leaves an entry without a known schedule on display
NeedsChangeKnown(services, current_sched, target_idx, idx, now_secs) ==
    IF IsNone(current_sched)
    THEN FALSE
    ELSE now_secs > Val(current_sched) /\ target_idx # idx

NeedsChange(services, current_sched, target_idx, idx, now_secs) ==
    IF IsNone(current_sched)
    THEN Len(services) > 1 /\ target_idx # idx
    ELSE now_secs > Val(current_sched) /\ target_idx # idx

auto_advance_if_due(g, now_ms, inp) ==
    IF g.svc_services = <<>> THEN g
    ELSE IF IsNone(inp.clock) THEN g
    ELSE
      LET now_secs == NowSecs(inp.clock)
          idx == IF g.current_service_idx >= Len(g.svc_services) THEN 0
                 ELSE g.current_service_idx
          current_sched ==
              IF g.svc_schedule_seconds # <<>> /\ idx < Len(g.svc_schedule_seconds)
              THEN g.svc_schedule_seconds[idx + 1] ELSE None
          target_idx == find_service_index_for_time(g.svc_services,
                            g.svc_schedule_seconds, Some(now_secs))
          g0 == [g EXCEPT !.current_service_idx = idx]
      IN  IF NeedsChange(g.svc_services, current_sched, target_idx, idx, now_secs)
          THEN
            LET g1 == apply_service([g0 EXCEPT !.current_service_idx = target_idx],
                                    g.svc_services[target_idx + 1])
            IN  trigger_fetch([g1 EXCEPT !.last_rotate_ms = now_ms], now_ms, FALSE, inp)
          ELSE g0

\* ------------------------------------------------------------------------
\* Switches and ticker (the body of the loop of main)
\* ------------------------------------------------------------------------
\* an edge of a switch is accepted
EdgeAccepted(pressed, last_state, now_ms, last_ms) ==
    pressed # last_state /\ ticks_diff(now_ms, last_ms) >= BUTTON_DEBOUNCE_MS

switch_a(g, pressed, now_ms, inp) ==
    IF EdgeAccepted(pressed, g.last_button_state, now_ms, g.last_button_ms)
    THEN
      LET g1 == [g EXCEPT !.last_button_ms = now_ms, !.last_button_state = pressed]
      IN  IF pressed THEN advance_service(g1, now_ms, inp) ELSE g1
    ELSE g

switch_b(g, pressed, now_ms, inp) ==
    IF EdgeAccepted(pressed, g.last_source_button_state, now_ms,
                    g.last_source_button_ms)
    THEN
      LET g1 == [g EXCEPT !.last_source_button_ms = now_ms,
                          !.last_source_button_state = pressed]
      IN  IF pressed THEN toggle_data_source(g1, now_ms, inp) ELSE g1
    ELSE g

\* the ticker step without the wrap at the width of the text
scroll_ticker_unwrapped(g, now_ms) ==
    IF g.ticker_text # <<>> /\ ticks_diff(now_ms, g.last_scroll_ms) >= TICKER_MS
    THEN [g EXCEPT !.last_scroll_ms = now_ms,
                   !.ticker_px = g.ticker_px + TICKER_STEP_PX]
    ELSE g

scroll_ticker(g, now_ms) ==
    IF g.ticker_text # <<>> /\ ticks_diff(now_ms, g.last_scroll_ms) >= TICKER_MS
    THEN [g EXCEPT !.last_scroll_ms = now_ms,
                   !.ticker_px = (g.ticker_px + TICKER_STEP_PX) % g.ticker_w]
    ELSE g

\* ------------------------------------------------------------------------
\* Environment: what the data sources, the clock and the tick counter yield
\* ------------------------------------------------------------------------
SvcA == <<T0900, <<66>>, "On time", 2>>
SvcB == <<T1400, <<65>>, "On time", 3>>
SvcC == <<TBad, <<65>>, "Delayed", 0>>
SvcD == <<T0900, <<65>>, "Cancelled", 2>>

\* the duplicate-free lists of at most n services of U, as extract_services
\* returns them (the empty list: the source failed or holds nothing)
ListsOver(U, n) ==
    UNION {{l \in [1..k -> U] : \A i, j \in 1..k : i # j => l[i] # l[j]} : k \in 0..n}

NoTime == None
Clock0859 == <<8, 59, 0>>
Clock0901 == <<9, 1, 0>>
Clock1500 == <<15, 0, 0>>

\* what one fetch on the render loop can read of local storage and of the
\* remote, by the order of its loads (remote_first) and the connectivity it
\* runs with (wifi).  A source the fetch does not come to read is not
\* enumerated: local storage is read only with an empty cache, the remote
\* only with an endpoint and connectivity, and the source that is second
\* in the order only when the first one yields nothing.
SourcesRead(remote_first, wifi) ==
    LET disks == IF local_services_cached = <<>> THEN env.lists ELSE {<<>>}
        remotes == IF REMOTE_JSON_URL /\ wifi THEN env.lists ELSE {<<>>}
    IN  IF remote_first
        THEN {[disk |-> <<>>, remote |-> r] : r \in remotes \ {<<>>}}
               \union {[disk |-> d, remote |-> <<>>] : d \in disks}
        ELSE IF local_services_cached # <<>>
        THEN {[disk |-> <<>>, remote |-> <<>>]}
        ELSE {[disk |-> d, remote |-> <<>>] : d \in disks \ {<<>>}}
               \union {[disk |-> <<>>, remote |-> r] : r \in remotes}

\* what a handler draws: the content of local storage, the remote answer,
\* the outcome of connect_wifi, the reading of get_local_time and of
\* time.ticks_ms().  fetch, conn and clk tell whether the handler can come
\* to fetch on the render loop, to reconnect, or to read the clock at all.
InputsAt(fetch, remote_first, conn, clk, t) ==
    UNION {{[disk |-> f.disk, remote |-> f.remote, connect |-> c,
             clock |-> k, ticks |-> t] :
               f \in IF fetch THEN SourcesRead(remote_first, wifi_ok \/ c)
                      ELSE {[disk |-> <<>>, remote |-> <<>>]},
               k \in IF clk THEN env.clocks ELSE {NoTime}} :
             c \in IF conn THEN BOOLEAN ELSE {FALSE}}

Inputs(fetch, remote_first, conn, clk) ==
    InputsAt(fetch, remote_first, conn, clk, ticks)

\* ------------------------------------------------------------------------
\* Initial state: main() up to the first connect_wifi
\* ------------------------------------------------------------------------
WIdle == [k |-> 0, remote_first |-> FALSE, fl |-> FetchLocals, failed |-> FALSE]

InitProgram(t0) ==
    /\ svc_services = <<DefaultService>>
    /\ current_service_idx = 0
    /\ svc_schedule_seconds = <<parse_sched_to_seconds(DefaultService[1])>>
    /\ svc_state = DefaultService
    /\ ticker_text = build_ticker_text(DefaultService[4])
    /\ ticker_w = Max(1, measure_text(build_ticker_text(DefaultService[4])))
    /\ ticker_px = 0
    /\ last_fetch_ms = t0
    /\ last_scroll_ms = t0
    /\ last_rotate_ms = t0
    /\ last_button_ms = t0
    /\ last_button_state \in env.switches
    /\ last_source_button_ms = t0
    /\ last_source_button_state \in env.switches
    /\ last_source = "defaults"
    /\ wifi_ok = FALSE
    /\ refresh_thread_running = FALSE
    /\ pending_refresh_result = None
    /\ prefer_remote = FALSE
    /\ local_services_cached = <<>>
    /\ pc = "start"
    /\ now = t0
    /\ ret = "none"
    /\ applied = "none"
    /\ wpc = "idle"
    /\ wl = WIdle
    /\ ticks = t0
    /\ iters = 0

Env == [lists |-> ListsOver({SvcA, SvcB}, MaxLen),
        clocks |-> {NoTime, Clock0901},
        deltas |-> {200, 30000},
        starts |-> {0},
        switches |-> {FALSE},
        urls |-> {TRUE},
        threads |-> {TRUE},
        counted |-> TRUE]

InitWith(e) ==
    /\ env = e
    /\ REMOTE_JSON_URL \in e.urls
    /\ thread_available \in e.threads
    /\ \E t0 \in e.starts : InitProgram(t0)

Init == InitWith(Env)

\* ------------------------------------------------------------------------
\* Render loop
\* ------------------------------------------------------------------------
frame == <<REMOTE_JSON_URL, thread_available, env>>

\* the render loop goes on at next_pc, or stays inside start_async_refresh
Render(g, next_pc) ==
    /\ SetGlobals(g)
    /\ pc' = IF g.pc = "saf" THEN "saf" ELSE next_pc
    /\ ret' = IF g.pc = "saf" THEN next_pc ELSE "none"

\* a trigger_fetch(now) of this iteration would fetch on the render loop
CanSyncFetch ==
    /\ ~thread_available
    /\ FetchDue(REMOTE_JSON_URL, prefer_remote, last_fetch_ms, now, FALSE)
CanConnect == REMOTE_JSON_URL /\ ~wifi_ok

\* main(): connect_wifi and the first refresh_service
Startup ==
    /\ pc = "start"
    /\ \E inp \in Inputs(TRUE, FALSE, REMOTE_JSON_URL, TRUE) :
         Render(refresh_service([G EXCEPT !.wifi_ok = inp.connect], inp), "poll")
    /\ UNCHANGED <<frame, now, wpc, wl, ticks, iters>>

\* top of the loop: now = time.ticks_ms(); poll_async_refresh()
Poll ==
    /\ pc = "poll"
    /\ iters < MaxIter
    /\ \E d \in env.deltas :
         /\ ticks' = (ticks + d) % TICKS_PERIOD
         /\ now' = ticks'
         /\ \E inp \in InputsAt(FALSE, FALSE, FALSE,
                                pending_refresh_result # None, ticks') :
              Render(poll_async_refresh(G, inp), "auto")
    /\ iters' = IF env.counted THEN iters + 1 ELSE iters
    /\ UNCHANGED <<frame, wpc, wl>>

AutoAdvance ==
    /\ pc = "auto"
    /\ \E inp \in Inputs(CanSyncFetch /\ Len(svc_services) > 1, TRUE,
                          CanConnect /\ Len(svc_services) > 1, TRUE) :
         Render(auto_advance_if_due(G, now, inp), "btnA")
    /\ UNCHANGED <<frame, now, wpc, wl, ticks, iters>>

SwitchA ==
    /\ pc = "btnA"
    /\ \E pressed \in BOOLEAN :
         LET edge == /\ pressed
                     /\ EdgeAccepted(pressed, last_button_state, now, last_button_ms)
                     /\ Len(svc_services) > 1
         IN  \E inp \in Inputs(edge /\ CanSyncFetch, TRUE, edge /\ CanConnect,
                               edge /\ CanSyncFetch) :
               Render(switch_a(G, pressed, now, inp), "btnB")
    /\ UNCHANGED <<frame, now, wpc, wl, ticks, iters>>

SwitchB ==
    /\ pc = "btnB"
    /\ \E pressed \in BOOLEAN :
         LET edge == pressed /\ EdgeAccepted(pressed, last_source_button_state,
                                             now, last_source_button_ms)
             sync == prefer_remote \/ (REMOTE_JSON_URL /\ ~thread_available)
         IN  \E inp \in Inputs(edge /\ sync, ~prefer_remote,
                               edge /\ ~prefer_remote /\ CanConnect,
                               edge /\ sync) :
               Render(switch_b(G, pressed, now, inp), "scroll")
    /\ UNCHANGED <<frame, now, wpc, wl, ticks, iters>>

\* the ticker step, draw() and the sleep closing the iteration
Scroll ==
    /\ pc = "scroll"
    /\ Render(scroll_ticker(G, now), "poll")
    /\ UNCHANGED <<frame, now, wpc, wl, ticks, iters>>

\* start_async_refresh from the test of refresh_thread_running on, and the
\* rest of trigger_fetch.  spawned: _thread.start_new_thread did not raise.
start_async_refresh(g, spawned) ==
    IF g.refresh_thread_running THEN [g |-> g, started |-> FALSE, result |-> TRUE]
    ELSE IF spawned
    THEN [g |-> [g EXCEPT !.refresh_thread_running = TRUE],
          started |-> TRUE, result |-> TRUE]
    ELSE [g |-> [g EXCEPT !.refresh_thread_running = FALSE],
          started |-> FALSE, result |-> FALSE]

WStart == [k |-> 1, remote_first |-> FALSE, fl |-> FetchLocals, failed |-> FALSE]

TriggerFetchResume ==
    /\ pc = "saf"
    /\ \E spawned \in BOOLEAN :
       \E inp \in Inputs(~spawned /\ ~refresh_thread_running,
                         RemoteFirst(prefer_remote, REMOTE_JSON_URL), FALSE,
                         ~spawned /\ ~refresh_thread_running) :
         LET s == start_async_refresh(G, spawned)
             g1 == IF s.result THEN s.g ELSE refresh_service(s.g, inp)
         IN  /\ SetGlobals([g1 EXCEPT !.last_fetch_ms = now])
             /\ wpc' = IF s.started THEN "load" ELSE wpc
             /\ wl' = IF s.started THEN WStart ELSE wl
    /\ pc' = ret
    /\ ret' = "none"
    /\ UNCHANGED <<frame, now, ticks, iters>>

\* ------------------------------------------------------------------------
\* Background worker (start_async_refresh.worker)
\* ------------------------------------------------------------------------
\* what no statement of the worker assigns
renderOwned == <<svc_state, svc_services, current_service_idx,
                 ticker_text, ticker_w, ticker_px,
                 last_fetch_ms, last_scroll_ms, last_rotate_ms, last_source,
                 wifi_ok, last_button_state, last_button_ms,
                 last_source_button_state, last_source_button_ms,
                 svc_schedule_seconds, prefer_remote, applied>>

\* one load of the worker's fetch_services_payload; the branch is chosen,
\* from prefer_remote, when the first load is reached
WorkerLoad ==
    /\ wpc = "load"
    /\ LET rf == IF wl.k = 1 THEN RemoteFirst(prefer_remote, REMOTE_JSON_URL)
                 ELSE wl.remote_first
           kind == FetchOrder(rf)[wl.k]
       IN  \E inp \in [disk : IF kind = "disk" THEN env.lists ELSE {<<>>},
                       remote : IF kind = "remote" THEN env.lists ELSE {<<>>}] :
             LET fl2 == LoadStep(kind, wl.fl, local_services_cached,
                                 REMOTE_JSON_URL, wifi_ok, inp)
                 last == fl2.services # <<>> \/ wl.k = 3
             IN  /\ local_services_cached' =
                        CacheStep(kind, local_services_cached, inp)
                 /\ wl' = [k |-> IF last THEN 0 ELSE wl.k + 1,
                           remote_first |-> IF last THEN FALSE ELSE rf,
                           fl |-> fl2, failed |-> FALSE]
                 /\ wpc' = IF last THEN "write" ELSE "load"
    /\ UNCHANGED <<renderOwned, refresh_thread_running, pending_refresh_result>>
    /\ UNCHANGED <<frame, pc, now, ret, ticks, iters>>

\* the fetch raises inside the worker and nothing catches it: the thread
\* ends there
WorkerRaiseUncaught ==
    /\ wpc = "load"
    /\ wl' = WIdle
    /\ wpc' = "idle"
    /\ UNCHANGED <<progVars, applied, frame, pc, now, ret, ticks, iters>>

\* the fetch raises inside the worker: the except clause builds the result
WorkerRaise ==
    /\ wpc = "load"
    /\ wl' = [k |-> 0, remote_first |-> FALSE, fl |-> FetchLocals, failed |-> TRUE]
    /\ wpc' = "write"
    /\ UNCHANGED <<progVars, applied, frame, pc, now, ret, ticks, iters>>

WorkerResult(w) ==
    IF w.failed
    THEN [services |-> <<>>, source |-> "none", wifi_drop |-> FALSE,
          error |-> Some("Async refresh failed")]
    ELSE FetchResult(w.fl)

\* pending_refresh_result = result, under refresh_lock
WorkerWrite ==
    /\ wpc = "write"
    /\ pending_refresh_result' = Some(WorkerResult(wl))
    /\ wpc' = "clear"
    /\ UNCHANGED <<renderOwned, refresh_thread_running, local_services_cached>>
    /\ UNCHANGED <<frame, pc, now, ret, wl, ticks, iters>>

\* refresh_thread_running = False, the worker's last statement
WorkerClear ==
    /\ wpc = "clear"
    /\ refresh_thread_running' = FALSE
    /\ wpc' = "idle"
    /\ wl' = WIdle
    /\ UNCHANGED <<renderOwned, pending_refresh_result, local_services_cached>>
    /\ UNCHANGED <<frame, pc, now, ret, ticks, iters>>

Next ==
    \/ Startup
    \/ Poll
    \/ AutoAdvance
    \/ SwitchA
    \/ SwitchB
    \/ Scroll
    \/ TriggerFetchResume
    \/ WorkerLoad
    \/ WorkerRaise
    \/ WorkerWrite
    \/ WorkerClear

Spec == Init /\ [][Next]_vars

\* A started thread is scheduled until it ends, and the loop of main never
\* stops.
SpecLive ==
    /\ Spec
    /\ WF_vars(WorkerLoad \/ WorkerRaise)
    /\ WF_vars(WorkerWrite)
    /\ WF_vars(WorkerClear)

\* The controller on a platform without _thread: every fetch runs on the
\* render loop, no worker exists; a wider choice of services and readings.
EnvSync == [lists |-> ListsOver({SvcA, SvcB, SvcC, SvcD}, MaxLen),
            clocks |-> {NoTime, Clock0859, Clock0901, Clock1500},
            deltas |-> {100, 30000},
            starts |-> {0},
            switches |-> {FALSE},
            urls |-> BOOLEAN,
            threads |-> {FALSE},
            counted |-> TRUE]

InitSync == InitWith(EnvSync)

NextSync ==
    \/ Startup
    \/ Poll
    \/ AutoAdvance
    \/ SwitchA
    \/ SwitchB
    \/ Scroll

SpecSync == InitSync /\ [][NextSync]_vars

\* The controller running without end, its iterations not counted.  The
\* model shows one iteration in each quarter of the tick period: it stands
\* for the iterations of that stretch, in which the switches are sampled
\* once.  The loop of main never stops (`while True` with a sleep of 10 ms),
\* so a step of the loop that can be taken is taken.
EnvLoop == [lists |-> ListsOver({SvcA, SvcB}, MaxLen),
            clocks |-> {NoTime, Clock0901},
            deltas |-> {TICKS_PERIOD \div 4},
            starts |-> {0},
            switches |-> {FALSE},
            urls |-> {TRUE},
            threads |-> {FALSE},
            counted |-> FALSE]

InitLoop == InitWith(EnvLoop)

SpecLoop == InitLoop /\ [][NextSync]_vars /\ WF_vars(NextSync)

\* The controller with its worker thread, running without end: as SpecLoop,
\* with _thread present and no wall clock; a source holds the two services
\* or nothing.
EnvRun == [lists |-> {<<>>, <<SvcA, SvcB>>},
           clocks |-> {NoTime},
           deltas |-> {TICKS_PERIOD \div 4},
           starts |-> {0},
           switches |-> {FALSE},
           urls |-> {TRUE},
           threads |-> {TRUE},
           counted |-> FALSE]

InitRun == InitWith(EnvRun)

SpecRun == InitRun /\ [][Next]_vars

\* a step of the loop of main: every one moves the loop's position on, and
\* no step of the worker does
LoopMoves == pc' # pc

\* The same, with the fetch of a worker coming to an end (by a result or by
\* an exception), a started thread scheduled until its last statement, and
\* the loop of main iterating for ever (`while True`): it takes step after
\* step without end.
SpecRunLive ==
    /\ SpecRun
    /\ []<><<LoopMoves>>_vars
    /\ WF_vars(WorkerLoad \/ WorkerRaise)
    /\ WF_vars(WorkerWrite)
    /\ WF_vars(WorkerClear)

\* Start-up alone, with local storage holding one service whose scheduled
\* time is any text of at most MaxText characters over Alphabet: the first
\* refresh parses it into svc_schedule_seconds.
Alphabet == {"1", "2", "7", ":", " ", "-"}

TextsUpTo(n) == UNION {[1..k -> Alphabet] : k \in 0..n}

EnvParse == [lists |-> {<<>>} \union {<<<<t, <<65>>, "On time", 2>>>> : t \in TextsUpTo(MaxText)},
             clocks |-> {NoTime},
             deltas |-> {200},
             starts |-> {0},
             switches |-> {FALSE},
             urls |-> {FALSE},
             threads |-> {FALSE},
             counted |-> TRUE]

InitParse == InitWith(EnvParse)

NextParse == Startup

SpecParse == InitParse /\ [][NextParse]_vars

\* The same controller left running for days with no remote endpoint and no
\* wall clock.  An iteration of the model may come half a tick period after
\* the one before it: the long step stands for the iterations of an idle
\* stretch, in which no switch changes and nothing but the ticker moves.  A
\* switch may be held down when main() starts.
EnvTicks == [lists |-> ListsOver({SvcA, SvcB}, MaxLen),
             clocks |-> {NoTime},
             deltas |-> {100, 200, TICKS_PERIOD \div 2},
             starts |-> {0},
             switches |-> BOOLEAN,
             urls |-> {FALSE},
             threads |-> {FALSE},
             counted |-> TRUE]

InitTicks == InitWith(EnvTicks)

SpecTicks == InitTicks /\ [][NextSync]_vars

\* ------------------------------------------------------------------------
\* Claims
\* ------------------------------------------------------------------------
\* a step of the worker writing the mailbox, and a step of the render loop
\* starting a worker
WorkerWrites == wpc = "write" /\ wpc' = "clear"
WorkerSpawned == wpc = "idle" /\ wpc' = "load"

\* C1: in every interleaving the mailbox is written only while it is empty,
\* and no worker is started while a worker is in flight or the mailbox holds
\* an unconsumed result.
C1_SingleWorkerSingleResult ==
    [][/\ WorkerWrites => pending_refresh_result = None
       /\ WorkerSpawned => (pending_refresh_result = None
                            /\ ~refresh_thread_running)]_vars

\* C2: a result in the mailbox leaves it only by a poll_async_refresh that
\* empties the slot and applies that result in the same step (so no result
\* is replaced or dropped before it is applied), and a poll that finds the
\* slot empty applies nothing.
C2_EachResultTakenOnce ==
    [][/\ (pending_refresh_result # None
           /\ pending_refresh_result' # pending_refresh_result)
          => (pc = "poll" /\ pending_refresh_result' = None /\ applied' # "none")
       /\ (pc = "poll" /\ pc' = "auto" /\ pending_refresh_result = None)
          => applied' = "none"]_vars

\* C3: the index always names an entry of the service list.
C3_IndexInRange ==
    current_service_idx \in 0..(Len(svc_services) - 1)

\* a polled result has replaced the list and the index resolved to its last entry
C3_RefreshResolvedToLast ==
    /\ pc = "auto"
    /\ applied = "True"
    /\ Len(svc_services) > 1
    /\ current_service_idx = Len(svc_services) - 1

\* the results apply_fetched_services can be handed that hold no service
EmptyResults ==
    [services : {<<>>}, source : {"none", "local", "remote"},
     wifi_drop : BOOLEAN, error : {None, Some("Async refresh failed")}]

\* nothing read while an empty result is handled
NoInput ==
    [disk |-> <<>>, remote |-> <<>>, connect |-> FALSE, clock |-> NoTime,
     ticks |-> ticks]

\* g2 shows what g showed; at most the connectivity flag went down
Retained(g, g2) ==
    /\ g2.svc_services = g.svc_services
    /\ g2.svc_schedule_seconds = g.svc_schedule_seconds
    /\ g2.current_service_idx = g.current_service_idx
    /\ g2.svc_state = g.svc_state
    /\ g2.ticker_text = g.ticker_text
    /\ g2.ticker_w = g.ticker_w
    /\ g2.ticker_px = g.ticker_px
    /\ g2.last_source = g.last_source
    /\ g2.wifi_ok => g.wifi_ok

\* a step in which nothing but the handling of an empty result can touch
\* what is displayed: a poll, or the synchronous refresh after a worker
\* could not be started
EmptyResultHandled == pc \in {"poll", "saf"} /\ applied' = "False"

\* C4: the service list is never empty; handing apply_fetched_services a
\* result without services leaves the list, the schedule index, the current
\* index, the displayed service, the ticker state and the source label as
\* they were and can only clear wifi_ok.
C4_NeverEmptyAndRetained ==
    /\ [](svc_services # <<>>)
    /\ [](\A r \in EmptyResults :
            Retained(G, apply_fetched_services(G, r, NoInput)))
    /\ [][EmptyResultHandled =>
            /\ UNCHANGED <<svc_services, svc_schedule_seconds,
                           current_service_idx, svc_state, ticker_text,
                           ticker_w, ticker_px, last_source>>
            /\ (wifi_ok' => wifi_ok)]_vars

\* a poll took an empty result that reported the connection lost, while two
\* services from the remote source were on display
C4_EmptyResultPolled ==
    /\ pc = "auto"
    /\ applied = "False"
    /\ Len(svc_services) = 2
    /\ last_source = "remote"
    /\ ~wifi_ok

\* the key of C5: seconds past midnight, 86400 for a time that does not parse
KeySeconds(service) ==
    LET p == parse_sched_to_seconds(service[1])
    IN  IF IsNone(p) THEN 86400 ELSE Val(p)

\* a may stand in front of b
InOrder(a, b) ==
    \/ KeySeconds(a) < KeySeconds(b)
    \/ KeySeconds(a) = KeySeconds(b) /\ ~StrLess(b[2], a[2])

\* C5: svc_services is in ascending order of (seconds past midnight,
\* destination), entries whose time does not parse after all that do.
C5_ServicesSorted ==
    /\ \A i \in 1..(Len(svc_services) - 1) :
          InOrder(svc_services[i], svc_services[i + 1])
    /\ \A i, j \in 1..Len(svc_services) :
          (i < j /\ IsNone(parse_sched_to_seconds(svc_services[i][1])))
             => IsNone(parse_sched_to_seconds(svc_services[j][1]))

\* a refreshed list with an unparseable time at its end, shown after the
\* index moved on to that entry
C5_UnparseableLast ==
    /\ svc_services = <<SvcD, SvcC>>
    /\ current_service_idx = 1
    /\ last_source = "remote"

\* the 0-based positions of scheds with a known schedule
Known(scheds) == {i \in 0..(Len(scheds) - 1) : ~IsNone(scheds[i + 1])}

\* the target of C6 and C8: the first entry with schedule >= now_secs, else
\* the (first) entry with the earliest known schedule, else 0
TargetIndex(scheds, now_secs) ==
    LET K == Known(scheds)
        AtOrAfter == {i \in K : Val(scheds[i + 1]) >= now_secs}
        Earliest == {i \in K : \A j \in K : Val(scheds[i + 1]) <= Val(scheds[j + 1])}
        First(S) == CHOOSE i \in S : \A j \in S : i <= j
    IN  IF AtOrAfter # {} THEN First(AtOrAfter)
        ELSE IF Earliest # {} THEN First(Earliest)
        ELSE 0

\* what auto_advance_if_due can read in the state it is called in, with the
\* wall clock available
AutoInputs ==
    {inp \in Inputs(CanSyncFetch /\ Len(svc_services) > 1, TRUE,
                    CanConnect /\ Len(svc_services) > 1, TRUE) :
       ~IsNone(inp.clock)}

\* the schedule of the current entry is known
CurrentKnown ==
    /\ current_service_idx < Len(svc_schedule_seconds)
    /\ ~IsNone(svc_schedule_seconds[current_service_idx + 1])

CurrentSched == Val(svc_schedule_seconds[current_service_idx + 1])

\* a later entry with schedule >= now_secs
LaterAtOrAfter(now_secs) ==
    \E j \in Known(svc_schedule_seconds) :
        j > current_service_idx /\ Val(svc_schedule_seconds[j + 1]) >= now_secs

\* the index changes only past the current schedule and towards a target
\* that differs; up to the current schedule it stays
AdvanceOnlyWhenPassed(g2, now_secs) ==
    /\ g2.current_service_idx # current_service_idx
          => /\ now_secs > CurrentSched
             /\ TargetIndex(svc_schedule_seconds, now_secs) # current_service_idx
    /\ now_secs <= CurrentSched
          => /\ g2.current_service_idx = current_service_idx
             /\ g2.svc_services = svc_services

\* C6 as stated: with the clock available and the current schedule known,
\* auto_advance_if_due changes the index only past the current schedule and
\* towards a differing target; past it, with a later entry at or after
\* now_secs, the index is that entry when auto_advance_if_due returns.
C6_AutoAdvanceAsStated ==
    (pc = "auto" /\ CurrentKnown) =>
      \A inp \in AutoInputs :
        LET g2 == auto_advance_if_due(G, now, inp)
            now_secs == NowSecs(inp.clock)
        IN  /\ AdvanceOnlyWhenPassed(g2, now_secs)
            /\ (now_secs > CurrentSched /\ LaterAtOrAfter(now_secs))
                  => g2.current_service_idx
                       = TargetIndex(svc_schedule_seconds, now_secs)

\* C6, amended: as above, but past the current schedule the index is the
\* target entry unless the refresh the advance requests ran inside
\* auto_advance_if_due (no worker facility) and replaced the list.
C6_AutoAdvance ==
    (pc = "auto" /\ CurrentKnown) =>
      \A inp \in AutoInputs :
        LET g2 == auto_advance_if_due(G, now, inp)
            now_secs == NowSecs(inp.clock)
        IN  /\ AdvanceOnlyWhenPassed(g2, now_secs)
            /\ (now_secs > CurrentSched /\ LaterAtOrAfter(now_secs))
                  => \/ /\ g2.applied # "True"
                        /\ g2.svc_services = svc_services
                        /\ g2.current_service_idx
                             = TargetIndex(svc_schedule_seconds, now_secs)
                     \/ /\ g2.applied = "True"
                        /\ g2.last_fetch_ms = now

\* auto_advance_if_due has just moved the index to a later entry
C6_AutoAdvanced ==
    /\ pc = "btnA"
    /\ last_rotate_ms = now
    /\ applied = "none"
    /\ current_service_idx > 0

\* the step of the loop in which a press of switch A is accepted
AcceptedPressA == pc = "btnA" /\ ~last_button_state /\ last_button_state'

\* the manual advance changed nothing and requested no refresh
AdvanceNoOp ==
    /\ UNCHANGED <<svc_services, current_service_idx, svc_state, ticker_text,
                   ticker_w, ticker_px, last_rotate_ms, last_fetch_ms,
                   pending_refresh_result, refresh_thread_running, wifi_ok>>
    /\ applied' = "none"

\* the indices a refresh can resolve against the list it installed
ResolvedIndices ==
    {0} \union {TargetIndex(svc_schedule_seconds', NowSecs(c)) :
                    c \in env.clocks \ {NoTime}}

\* C7 as stated: an accepted press of switch A leaves the index at
\* (index + 1) mod len when the list has more than one entry, and is a
\* complete no-op otherwise.
C7_ManualAdvanceAsStated ==
    [][AcceptedPressA =>
         IF Len(svc_services) > 1
         THEN current_service_idx'
                = (current_service_idx + 1) % Len(svc_services)
         ELSE AdvanceNoOp]_vars

\* C7, amended: with more than one entry the index is (index + 1) mod len
\* unless the refresh the advance requests ran inside the handler and
\* installed a list, in which case the index is the one that refresh
\* resolved; with at most one entry the press is a complete no-op.
C7_ManualAdvance ==
    [][AcceptedPressA =>
         IF Len(svc_services) > 1
         THEN \/ /\ applied' # "True"
                 /\ svc_services' = svc_services
                 /\ current_service_idx'
                      = (current_service_idx + 1) % Len(svc_services)
              \/ /\ applied' = "True"
                 /\ last_fetch_ms' = now
                 /\ current_service_idx' \in ResolvedIndices
         ELSE AdvanceNoOp]_vars

\* an accepted press took the index from the last entry round to the first
C7_AdvanceWrapped ==
    /\ pc = "btnB"
    /\ last_button_state
    /\ last_button_ms = now
    /\ last_rotate_ms = now
    /\ applied = "none"
    /\ Len(svc_services) > 1
    /\ current_service_idx = 0

\* C8: a refresh that installs a list, with the clock available, sets the
\* index to the first entry of the sorted list with schedule >= now_secs,
\* else to the entry with the earliest known schedule, else to 0, whatever
\* the index was before.
C8_RefreshResolvesIndex ==
    \A services \in env.lists \ {<<>>} :
      \A c \in env.clocks \ {NoTime} :
        LET g2 == apply_services_payload(G, services, "remote",
                                         [NoInput EXCEPT !.clock = c])
        IN  /\ g2.svc_schedule_seconds = ScheduleSeconds(g2.svc_services)
            /\ g2.current_service_idx
                 = TargetIndex(g2.svc_schedule_seconds, NowSecs(c))
            /\ g2.svc_state = g2.svc_services[g2.current_service_idx + 1]

\* after a manual advance to the first entry, a refresh in the same
\* iteration has put the index on a later entry
C8_RefreshAfterAdvance ==
    /\ pc = "scroll"
    /\ applied = "True"
    /\ last_button_state
    /\ last_button_ms = now
    /\ current_service_idx > 0

\* the time since the last accepted change of a switch, as far as the tick
\* counter tells it: the time that really passed is this or a whole number
\* of tick periods more
SinceAccepted(last_ms) == (now - last_ms) % TICKS_PERIOD

\* C9: for each switch, a sample that differs from the last accepted state
\* and comes more than the debounce window after the last accepted change
\* is emitted as an edge: the state and the timestamp of the switch are
\* updated.
C9_QualifyingFlipEmitted ==
    /\ pc = "btnA" =>
         \A pressed \in BOOLEAN :
           (pressed # last_button_state
              /\ SinceAccepted(last_button_ms) > BUTTON_DEBOUNCE_MS)
           => LET g2 == switch_a(G, pressed, now, NoInput)
              IN  g2.last_button_state = pressed /\ g2.last_button_ms = now
    /\ pc = "btnB" =>
         \A pressed \in BOOLEAN :
           (pressed # last_source_button_state
              /\ SinceAccepted(last_source_button_ms) > BUTTON_DEBOUNCE_MS)
           => LET g2 == switch_b(G, pressed, now, NoInput)
              IN  /\ g2.last_source_button_state = pressed
                  /\ g2.last_source_button_ms = now

\* a remote fetch is attempted in a run of fetch_services_payload: an
\* endpoint and connectivity, and either the remote-first order or neither
\* the cache nor local storage supplying a list
RemoteAttempted(g, disk) ==
    /\ g.url
    /\ g.wifi_ok
    /\ g.prefer_remote \/ (g.local_services_cached = <<>> /\ disk = <<>>)

\* wifi_drop of the result is as C10 has it
WifiDropExact(g, disk, remote) ==
    LET r == fetch_services_payload(
                 g, [NoInput EXCEPT !.disk = disk, !.remote = remote]).result
    IN  /\ r.wifi_drop <=> (RemoteAttempted(g, disk) /\ remote = <<>>)
        /\ r.source = "remote" => (~r.wifi_drop /\ r.services = remote)

\* C10: wifi_drop of the result of fetch_services_payload is true exactly
\* when the call attempted a remote fetch and that attempt yielded no
\* service; for every preference, endpoint, connectivity flag, cache, local
\* storage and remote outcome at start-up, for every state the controller
\* reaches, and for the result a worker leaves in the mailbox.
C10_WifiDropExact ==
    /\ pc = "start" =>
         \A p, u, w \in BOOLEAN :
           \A cache, disk, remote \in env.lists :
             WifiDropExact([G EXCEPT !.prefer_remote = p, !.url = u,
                                     !.wifi_ok = w,
                                     !.local_services_cached = cache],
                           disk, remote)
    /\ \A disk, remote \in env.lists : WifiDropExact(G, disk, remote)
    /\ pending_refresh_result # None =>
         (Val(pending_refresh_result).wifi_drop
            => Val(pending_refresh_result).source # "remote")

\* a worker's remote attempt failed and the cache supplied the list: the
\* result in the mailbox reports the drop
C10_DropFromWorker ==
    /\ pending_refresh_result # None
    /\ Val(pending_refresh_result).wifi_drop
    /\ Val(pending_refresh_result).source = "local"

\* what the remote yields to a fetch: nothing without an endpoint or with
\* the connectivity flag down
RemoteYield(g, remote) == IF g.url /\ g.wifi_ok THEN remote ELSE <<>>

\* the sources of C11 in policy order, each with the label it is given
PolicyOrder(g, disk, remote) ==
    IF g.prefer_remote /\ g.url
    THEN <<<<RemoteYield(g, remote), "remote">>,
           <<g.local_services_cached, "local">>, <<disk, "local">>>>
    ELSE <<<<g.local_services_cached, "local">>, <<disk, "local">>,
           <<RemoteYield(g, remote), "remote">>>>

\* the first non-empty source of the order, or the empty list and no label
FirstNonEmpty(order) ==
    IF \A i \in 1..3 : order[i][1] = <<>> THEN <<<<>>, "none">>
    ELSE order[CHOOSE i \in 1..3 :
                 /\ order[i][1] # <<>>
                 /\ \A j \in 1..(i - 1) : order[j][1] = <<>>]

\* the result of fetch_services_payload is as C11 has it
FirstInPolicyOrder(g, disk, remote) ==
    LET r == fetch_services_payload(
                 g, [NoInput EXCEPT !.disk = disk, !.remote = remote]).result
        e == FirstNonEmpty(PolicyOrder(g, disk, remote))
    IN  r.services = e[1] /\ r.source = e[2]

\* C11: fetch_services_payload returns the first non-empty source in policy
\* order with its label (remote, cache, storage when remote is preferred and
\* an endpoint is configured; cache, storage, remote otherwise; the remote
\* yielding only with an endpoint and the connectivity flag set), and the
\* empty list with no label when every source is empty; for every
\* preference, endpoint, connectivity flag, cache, storage and remote
\* content at start-up and for every state the controller reaches.  A result
\* a worker leaves in the mailbox has no label exactly when it has no service.
C11_FirstInPolicyOrder ==
    /\ pc = "start" =>
         \A p, u, w \in BOOLEAN :
           \A cache, disk, remote \in env.lists :
             FirstInPolicyOrder([G EXCEPT !.prefer_remote = p, !.url = u,
                                          !.wifi_ok = w,
                                          !.local_services_cached = cache],
                                disk, remote)
    /\ \A disk, remote \in env.lists : FirstInPolicyOrder(G, disk, remote)
    /\ pending_refresh_result # None =>
         (Val(pending_refresh_result).source = "none"
            <=> Val(pending_refresh_result).services = <<>>)

\* in local-first mode, with cache and storage empty, the fetch at start-up
\* fell through to the remote and its list is shown
C11_LocalFirstFellToRemote ==
    /\ pc = "poll"
    /\ ~prefer_remote
    /\ local_services_cached = <<>>
    /\ last_source = "remote"
    /\ Len(svc_services) = 2

\* a load of the worker's fetch that yields the list the cache now holds:
\* the read of local storage
WorkerReadsStorage ==
    /\ wpc = "load"
    /\ ~wl'.failed
    /\ wl'.fl.services = local_services_cached'

\* a fetch on the render loop that yields a remote result, applied, leaves
\* the cache of g as it is
RemoteSuccessKeepsCache(g, disk, remote) ==
    LET inp == [NoInput EXCEPT !.disk = disk, !.remote = remote,
                               !.clock = Clock0901]
        f == fetch_services_payload(g, inp)
    IN  f.result.source = "remote"
          => /\ f.cache = g.local_services_cached
             /\ ApplyFetch(g, f, inp).local_services_cached
                  = g.local_services_cached

\* C12: local_services_cached changes only to a non-empty list that came
\* from local storage (in the step of the worker that reads storage, or in
\* a step that applies a result labelled local, which stores the sorted
\* list), and never through a remote success: a fetch that yields a remote
\* result and its application leave the cache as it was, in a fetch on the
\* render loop, in a poll that applies a worker's remote result, and in the
\* loads of a worker whose result is remote.
C12_CacheOnlyFromStorage ==
    /\ [](\A disk, remote \in env.lists : RemoteSuccessKeepsCache(G, disk, remote))
    /\ [][local_services_cached' # local_services_cached
            => /\ local_services_cached' # <<>>
               /\ \/ WorkerReadsStorage /\ wl'.fl.source_label = "local"
                  \/ /\ pc' # pc
                     /\ applied' = "True"
                     /\ last_source' = "local"
                     /\ local_services_cached' = svc_services']_vars
    /\ [][(pc' # pc /\ applied' = "True" /\ last_source' = "remote")
            => UNCHANGED local_services_cached]_vars

\* a poll applied a worker's remote result while the cache held the list
\* read from local storage at start-up
C12_RemoteAppliedCacheKept ==
    /\ pc = "auto"
    /\ applied = "True"
    /\ last_source = "remote"
    /\ prefer_remote
    /\ local_services_cached # <<>>
    /\ local_services_cached # svc_services

\* the time since the last rotation, as far as the tick counter tells it
SinceRotation == (now - last_rotate_ms) % TICKS_PERIOD

\* C13: with the wall clock unavailable and more than one service, a call
\* of auto_advance_if_due made once SERVICE_ROTATE_INTERVAL has elapsed
\* since the last rotation moves the index to (index + 1) mod len.
C13_RoundRobinWithoutClock ==
    (/\ pc = "auto"
     /\ Len(svc_services) > 1
     /\ SinceRotation >= SERVICE_ROTATE_INTERVAL * 1000)
    => auto_advance_if_due(G, now, NoInput).current_service_idx
         = (current_service_idx + 1) % Len(svc_services)

\* the cases in which C14 has trigger_fetch(now_ms, force) do nothing
NoOpCase(g, now_ms, force) ==
    \/ ~g.url
    \/ ~force /\ ~g.prefer_remote
    \/ /\ ~force
       /\ ticks_diff(now_ms, g.last_fetch_ms) >= 0
       /\ ticks_diff(now_ms, g.last_fetch_ms) < FETCH_INTERVAL * 1000

\* values of now_ms around the fetch window: the current tick, the tick of
\* the last fetch, and the last tick inside the window after it
WindowTicks ==
    {now, last_fetch_ms, (last_fetch_ms + FETCH_INTERVAL * 1000 - 1) % TICKS_PERIOD}

\* inputs with which a reconnect or a fetch, if made, shows in the state
TellingInputs ==
    {[NoInput EXCEPT !.disk = d, !.remote = r, !.connect = c, !.clock = Clock0901] :
        d \in {<<SvcA>>, <<SvcB, SvcA>>}, r \in {<<SvcB>>, <<SvcA, SvcB>>},
        c \in BOOLEAN}

\* C14: with no endpoint configured, or not forced and not remote-preferring,
\* or not forced and 0 <= ticks_diff(now, last_fetch_ms) < FETCH_INTERVAL *
\* 1000, trigger_fetch returns the state it was called in: no field changes,
\* no reconnect, no fetch, no worker requested.
C14_TriggerFetchNoOp ==
    \A force \in BOOLEAN :
      \A now_ms \in WindowTicks :
        NoOpCase(G, now_ms, force)
          => \A inp \in TellingInputs : trigger_fetch(G, now_ms, force, inp) = G

\* an accepted press of switch A advanced the service in remote-preferring
\* mode within the fetch window: its trigger_fetch did nothing
C14_AdvanceInsideWindow ==
    /\ pc = "btnB"
    /\ REMOTE_JSON_URL
    /\ prefer_remote
    /\ last_button_state
    /\ last_button_ms = now
    /\ last_rotate_ms = now
    /\ last_fetch_ms # now
    /\ ticks_diff(now, last_fetch_ms) < FETCH_INTERVAL * 1000

\* the time since the last fetch, as far as the tick counter tells it
SinceFetch == (now - last_fetch_ms) % TICKS_PERIOD

\* inputs of a fetch in which every source fails
FailingInputs == {[NoInput EXCEPT !.connect = c] : c \in BOOLEAN}

\* a step of the loop in which auto_advance_if_due or advance_service got
\* past the checks of its trigger_fetch(now): it fetched, or went into
\* start_async_refresh, or stamped last_fetch_ms
UnforcedDispatch ==
    /\ pc \in {"auto", "btnA"}
    /\ pc' # pc
    /\ pc' = "saf" \/ applied' # "none" \/ last_fetch_ms' # last_fetch_ms

\* C15: a trigger_fetch that gets past its no-op checks leaves last_fetch_ms
\* = now_ms whatever the fetch yields, at the latest when the call that went
\* into start_async_refresh returns; and a non-forced dispatch happens only
\* when at least FETCH_INTERVAL * 1000 ms have passed since last_fetch_ms,
\* the tick of the dispatch before it.
C15_FetchStampedAndSpaced ==
    /\ [](\A force \in BOOLEAN :
            \A now_ms \in WindowTicks \union {(last_fetch_ms + FETCH_INTERVAL * 1000)
                                                 % TICKS_PERIOD} :
              ~NoOpCase(G, now_ms, force)
                => \A inp \in TellingInputs \union FailingInputs :
                     LET g2 == trigger_fetch(G, now_ms, force, inp)
                     IN  g2.pc = "saf" \/ g2.last_fetch_ms = now_ms)
    /\ [][(pc = "saf" /\ pc' # "saf") => last_fetch_ms' = now]_vars
    /\ [][UnforcedDispatch
            => /\ SinceFetch >= FETCH_INTERVAL * 1000
               /\ pc' # "saf" => last_fetch_ms' = now]_vars

\* the fetch requested by an automatic advance ran on the render loop (no
\* worker could be started), every source failed, and last_fetch_ms is now
C15_FailedFetchStamped ==
    /\ pc = "btnA"
    /\ prefer_remote
    /\ applied = "False"
    /\ last_rotate_ms = now
    /\ last_fetch_ms = now

\* an iteration begins in remote-preferring mode with an endpoint and the
\* fetch interval elapsed since the last fetch
DataDue ==
    /\ pc = "auto"
    /\ REMOTE_JSON_URL
    /\ prefer_remote
    /\ SinceFetch >= FETCH_INTERVAL * 1000

\* a fetch has been dispatched: it ran on the render loop in the step just
\* taken, or a worker was requested or is in flight
FetchDispatched == applied # "none" \/ pc = "saf" \/ refresh_thread_running

\* C16: whenever the controller is remote-preferring with an endpoint and
\* FETCH_INTERVAL seconds have elapsed since the last fetch, the render loop
\* eventually dispatches a fetch.
C16_RefreshedOnInterval == DataDue ~> FetchDispatched

\* the result the except clause of the worker builds
FailedResult ==
    [services |-> <<>>, source |-> "none", wifi_drop |-> FALSE,
     error |-> Some("Async refresh failed")]

\* the worker writes the mailbox after its fetch raised
FailedWorkerWrites == WorkerWrites /\ wl.failed

\* a poll takes a result that carries an error
FailedResultPolled ==
    /\ pc = "poll"
    /\ pc' = "auto"
    /\ pending_refresh_result # None
    /\ Val(pending_refresh_result).error # None

\* C17: a fetch that raises inside the worker ends in the except clause:
\* the worker goes on to write a result with no service, no source and an
\* error message to the mailbox and then clears the in-flight flag; the
\* flag is set only while a worker is in flight and is always cleared again;
\* a poll that takes the failed result discards it and leaves the service
\* list and what is displayed as they were.
C17_WorkerFailureContained ==
    /\ [](refresh_thread_running => wpc \in {"load", "write", "clear"})
    /\ [][(wpc = "load" /\ wl'.failed) => wpc' = "write"]_vars
    /\ [][FailedWorkerWrites
            => pending_refresh_result' = Some(FailedResult)]_vars
    /\ [][(wpc = "clear" /\ wpc' # "clear") => ~refresh_thread_running']_vars
    /\ [][FailedResultPolled
            => /\ applied' = "False"
               /\ pending_refresh_result' = None
               /\ UNCHANGED <<svc_services, svc_schedule_seconds,
                              current_service_idx, svc_state, ticker_text,
                              ticker_w, ticker_px, last_source, wifi_ok>>]_vars
    /\ (refresh_thread_running ~> ~refresh_thread_running)

\* the worker's fetch raised: the failed result waits in the mailbox, the
\* worker has ended and the in-flight flag is clear
C17_FailedResultWaiting ==
    /\ pending_refresh_result = Some(FailedResult)
    /\ wpc = "idle"
    /\ ~refresh_thread_running

\* a step of the render loop that makes a service the current one: a
\* refresh that installs a list, a manual or an automatic advance
ServiceApplied ==
    /\ pc \in {"start", "poll", "auto", "btnA", "btnB", "saf"}
    /\ pc' # pc
    /\ \/ applied' = "True"
       \/ svc_state' # svc_state
       \/ current_service_idx' # current_service_idx
       \/ last_rotate_ms' # last_rotate_ms

\* the ticker step of an iteration, due or not
TickerStep == pc = "scroll" /\ pc' = "poll"

\* C18: ticker_w >= 1 and 0 <= ticker_px < ticker_w in every state; a step
\* that changes the current service (refresh, manual advance, automatic
\* advance) leaves ticker_px = 0; the ticker step, when due, sets ticker_px
\* to (ticker_px + TICKER_STEP_PX) mod ticker_w, and leaves it otherwise.
C18_TickerInRange ==
    /\ [](ticker_w >= 1 /\ ticker_px \in 0..(ticker_w - 1))
    /\ [][ServiceApplied => ticker_px' = 0]_vars
    /\ [][TickerStep
            => /\ ticker_w' = ticker_w
               /\ ticker_px' =
                    IF ticks_diff(now, last_scroll_ms) >= TICKER_MS
                    THEN (ticker_px + TICKER_STEP_PX) % ticker_w
                    ELSE ticker_px]_vars

\* the ticker of the service shown since start-up, two pixels wide, has
\* scrolled twice and wrapped to 0
C18_TickerWrapped ==
    /\ pc = "poll"
    /\ now > 0
    /\ last_scroll_ms = now
    /\ last_rotate_ms = 0
    /\ ticker_w = 2
    /\ ticker_px = 0

\* the part of a stripped text before its first colon, and the part after it
HourPart(t) == SubSeq(t, 1, ColonPos(t, 1) - 1)
MinutePart(t) == SubSeq(t, ColonPos(t, 1) + 1, Len(t))

\* up to the first two digit characters of s, as a number
FirstTwoDigits(s) ==
    LET d == SelectSeq(s, isdigit)
    IN  DigitsValue(IF Len(d) > 2 THEN SubSeq(d, 1, 2) ELSE d, 0)

\* the cases in which C19 has the result None, t being the stripped text
ClaimedNone(t) ==
    \/ t = <<>>
    \/ ColonPos(t, 1) = 0
    \/ MinutePart(t) = <<>> \/ ~isdigit(Head(MinutePart(t)))
    \/ FirstTwoDigits(MinutePart(t)) > 59

\* the text of the service read at start-up and what it was parsed to
ParsedText == strip(svc_services[1][1])
ParsedSeconds == svc_schedule_seconds[1]

\* C19: parse_sched_to_seconds returns None for an empty text, a text
\* without colon, a minute portion with zero leading digits and a minute
\* outside [0, 59]; otherwise it returns (hour mod 24) * 3600 + minute * 60
\* with the minute formed from up to the first two digit characters after
\* the colon; every result that is not None is a multiple of 60 in
\* [0, 86340].
C19_ParseAsStated ==
    (pc = "poll" /\ last_source = "local") =>
      /\ ClaimedNone(ParsedText) => IsNone(ParsedSeconds)
      /\ ~ClaimedNone(ParsedText)
           => /\ ~IsNone(ParsedSeconds)
              /\ ~IsNone(ParseInt(HourPart(ParsedText)))
              /\ Val(ParsedSeconds)
                   = (Val(ParseInt(HourPart(ParsedText))) % 24) * 3600
                       + FirstTwoDigits(MinutePart(ParsedText)) * 60
      /\ ~IsNone(ParsedSeconds)
           => /\ Val(ParsedSeconds) % 60 = 0
              /\ Val(ParsedSeconds) \in 0..86340

\* s, blanks around it aside, is an integer literal: an optional sign and
\* then one or more digits
Unsigned(s) == IF s # <<>> /\ Head(s) \in {"-", "+"} THEN Tail(s) ELSE s
IsIntLiteral(s) ==
    /\ Unsigned(strip(s)) # <<>>
    /\ \A i \in 1..Len(Unsigned(strip(s))) : isdigit(Unsigned(strip(s))[i])
LiteralValue(s) ==
    IF Head(strip(s)) = "-" THEN 0 - DigitsValue(Unsigned(strip(s)), 0)
    ELSE DigitsValue(Unsigned(strip(s)), 0)

\* the cases in which the result is None, t being the stripped text
AmendedNone(t) ==
    \/ t = <<>>
    \/ ColonPos(t, 1) = 0
    \/ ~IsIntLiteral(HourPart(t))
    \/ SelectSeq(MinutePart(t), isdigit) = <<>>
    \/ FirstTwoDigits(MinutePart(t)) > 59

\* C19, amended: parse_sched_to_seconds returns None exactly when the text
\* is empty, has no colon, has a part before the colon that is not an
\* integer literal, has no digit character anywhere after the colon, or has
\* a minute outside [0, 59]; otherwise it returns (hour mod 24) * 3600 +
\* minute * 60, the minute formed from the first two digit characters found
\* after the colon, other characters skipped; every result that is not None
\* is a multiple of 60 in [0, 86340].
C19_Parse ==
    (pc = "poll" /\ last_source = "local") =>
      /\ AmendedNone(ParsedText) <=> IsNone(ParsedSeconds)
      /\ ~AmendedNone(ParsedText)
           => Val(ParsedSeconds)
                = (LiteralValue(HourPart(ParsedText)) % 24) * 3600
                    + FirstTwoDigits(MinutePart(ParsedText)) * 60
      /\ ~IsNone(ParsedSeconds)
           => /\ Val(ParsedSeconds) % 60 = 0
              /\ Val(ParsedSeconds) \in 0..86340

\* the text "27:11" was parsed with its hour wrapped to 3
C19_HourWrapped ==
    /\ pc = "poll"
    /\ svc_services[1][1] = <<"2", "7", ":", "1", "1">>
    /\ ParsedSeconds = Some(11460)

\* a step taken by the background worker
WorkerStep == pc' = pc /\ (wpc' # wpc \/ wl' # wl)

\* C20: the worker shares nothing with the render loop but the mailbox and
\* the in-flight flag: no step of the worker changes the service list, the
\* index, the source label, the connectivity flag, the preference or the
\* local cache.
C20_WorkerWritesOnlyMailbox ==
    [][WorkerStep
         => UNCHANGED <<svc_services, svc_schedule_seconds, current_service_idx,
                        svc_state, last_source, wifi_ok, prefer_remote,
                        local_services_cached>>]_vars

\* C21: the worker clears the in-flight flag before it writes the mailbox:
\* in the step that makes a result visible to the render loop the flag is
\* already false.
C21_FlagClearBeforeResult ==
    [][WorkerWrites
         => (~refresh_thread_running /\ ~refresh_thread_running')]_vars

\* the mailbox holds the result of a completed fetch that found services
ResultWaiting ==
    /\ pending_refresh_result # None
    /\ Val(pending_refresh_result).services # <<>>

\* the step is a poll_async_refresh that takes the waiting result and puts
\* it on display: list, schedule index, index resolved against the clock
\* read in the step, source label
WaitingResultApplied ==
    /\ pc = "poll"
    /\ pc' = "auto"
    /\ pending_refresh_result' = None
    /\ applied' = "True"
    /\ svc_services' = sorted(Val(pending_refresh_result).services)
    /\ svc_schedule_seconds' = ScheduleSeconds(svc_services')
    /\ last_source' = Val(pending_refresh_result).source
    /\ \E k \in env.clocks :
         current_service_idx' =
             IndexAfterRefresh(svc_services', svc_schedule_seconds', k)

\* C22: the result of a completed background fetch that holds services
\* stays in the mailbox until the next poll, and that poll applies it
\* (list, index and source label replaced) whatever the render loop did
\* while the fetch was in flight.
C22_CompletedFetchApplied ==
    [][(ResultWaiting /\ pending_refresh_result' # pending_refresh_result)
         => WaitingResultApplied]_vars

\* the worker is between the start of its thread and its last statement
WorkerInFlight == wpc # "idle"

\* a step of the render loop that runs refresh_service, that is a fetch on
\* the render loop's own thread (a poll applies without fetching)
SyncFetchStep == pc' # pc /\ pc # "poll" /\ applied' # "none"

\* C23: the render loop runs no synchronous fetch while a background worker
\* is in flight.
C23_NoOverlappingFetch ==
    [][SyncFetchStep => ~WorkerInFlight]_vars

\* what a fetch returns that answers from the cache alone
FromCache(cache) ==
    [result |-> [services |-> cache, source |-> "local", wifi_drop |-> FALSE,
                 error |-> None],
     cache |-> cache]

\* a fetch in the order `order` started now on the render loop, whatever
\* local storage and the remote hold
FetchNow(order, d, r) ==
    FetchFrom(order, 1, FetchLocals, local_services_cached, REMOTE_JSON_URL,
              wifi_ok, [disk |-> d, remote |-> r])

\* with a filled cache, a local-first fetch answers from the cache whatever
\* the sources hold, and the answer of a remote-first fetch does not depend
\* on local storage
FilledCacheServes ==
    local_services_cached # <<>> =>
      \A d \in env.lists, r \in env.lists :
        /\ FetchNow(FetchOrder(FALSE), d, r) = FromCache(local_services_cached)
        /\ FetchNow(FetchOrder(TRUE), d, r) = FetchNow(FetchOrder(TRUE), <<>>, r)

\* the worker's fetch makes its first load, in the local-first order
WorkerFirstLoadLocalFirst ==
    /\ wpc = "load"
    /\ wl.k = 1
    /\ wl' # wl
    /\ ~wl'.failed
    /\ ~RemoteFirst(prefer_remote, REMOTE_JSON_URL)

\* the worker's fetch reads local storage (load_local_services)
WorkerReadsDisk ==
    /\ wpc = "load"
    /\ wl.k > 1
    /\ FetchOrder(wl.remote_first)[wl.k] = "disk"
    /\ wl' # wl
    /\ ~wl'.failed

\* C24: a filled cache is never emptied; with a filled cache every
\* local-first fetch returns the cached list labelled local without reading
\* local storage or the remote; a fetch, remote-first ones included, reads
\* local storage only while the cache is empty.
C24_CacheKeptAndServed ==
    /\ [][local_services_cached # <<>> => local_services_cached' # <<>>]_vars
    /\ []FilledCacheServes
    /\ [][(WorkerFirstLoadLocalFirst /\ local_services_cached # <<>>)
            => (wpc' = "write" /\ FetchResult(wl'.fl)
                                    = FromCache(local_services_cached).result)]_vars
    /\ [][WorkerReadsDisk => local_services_cached = <<>>]_vars

\* the loop is about to sample switch A, a press would be accepted and
\* would advance the index, and the advance would request no fetch (its
\* trigger_fetch returns early), so that the entry it selects stays
PressAdvances ==
    /\ pc = "btnA"
    /\ EdgeAccepted(TRUE, last_button_state, now, last_button_ms)
    /\ Len(svc_services) > 1
    /\ ~FetchDue(REMOTE_JSON_URL, prefer_remote, last_fetch_ms, now, FALSE)

\* what the auto_advance_if_due of the next iteration, at tick t, can read
\* with the wall clock available (switch B not pressed in between)
NextAutoInputs(t) ==
    {inp \in InputsAt(~thread_available
                        /\ FetchDue(REMOTE_JSON_URL, prefer_remote,
                                    last_fetch_ms, t, FALSE),
                      TRUE, CanConnect, TRUE, t) :
       ~IsNone(inp.clock)}

\* the entry selected in g has a known schedule
KnownAt(g) ==
    /\ g.current_service_idx < Len(g.svc_schedule_seconds)
    /\ ~IsNone(g.svc_schedule_seconds[g.current_service_idx + 1])

SchedAt(g) == Val(g.svc_schedule_seconds[g.current_service_idx + 1])

\* in g2 the entry selected by hand in g1 is still on display
Persisted(g1, g2) ==
    /\ g2.svc_services = g1.svc_services
    /\ g2.current_service_idx = g1.current_service_idx

\* the entry selected by hand is due to be left: its schedule is unknown or
\* strictly before now_secs, and the target is another entry
DueToLeave(g1, now_secs) ==
    /\ ~KnownAt(g1) \/ SchedAt(g1) < now_secs
    /\ TargetIndex(g1.svc_schedule_seconds, now_secs) # g1.current_service_idx

\* the selection survives the call only if its schedule is known and not
\* before now_secs, or it is the target itself
PersistsOnlyIf(g1, g2, now_secs) ==
    Persisted(g1, g2) =>
      \/ KnownAt(g1) /\ SchedAt(g1) >= now_secs
      \/ TargetIndex(g1.svc_schedule_seconds, now_secs) = g1.current_service_idx

\* g1: after the manual advance; g2: after the next auto_advance_if_due
UndoneAsStated(g1, g2, now_secs) ==
    /\ PersistsOnlyIf(g1, g2, now_secs)
    /\ DueToLeave(g1, now_secs)
          => g2.current_service_idx
               = TargetIndex(g1.svc_schedule_seconds, now_secs)

\* the call left the selection for the target, or for the entry resolved by
\* the refresh that ran inside it and replaced the list
Undone(g1, g2, now_secs, t) ==
    /\ PersistsOnlyIf(g1, g2, now_secs)
    /\ DueToLeave(g1, now_secs)
          => /\ ~Persisted(g1, g2)
             /\ \/ /\ g2.applied # "True"
                   /\ g2.svc_services = g1.svc_services
                   /\ g2.current_service_idx
                        = TargetIndex(g1.svc_schedule_seconds, now_secs)
                \/ /\ g2.applied = "True"
                   /\ g2.last_fetch_ms = t
                   /\ g2.current_service_idx
                        = TargetIndex(g2.svc_schedule_seconds, now_secs)

NextAutoAsStated(g1, t) ==
    \A inp \in NextAutoInputs(t) :
      UndoneAsStated(g1, auto_advance_if_due(g1, t, inp), NowSecs(inp.clock))

NextAuto(g1, t) ==
    \A inp \in NextAutoInputs(t) :
      Undone(g1, auto_advance_if_due(g1, t, inp), NowSecs(inp.clock), t)

\* C25 as stated: with the wall clock available, a manual advance survives
\* the auto_advance_if_due of the next iteration only if the selected entry
\* has a known schedule >= now_secs or is the target; if its schedule is
\* unknown or strictly before now_secs and the target differs, the index is
\* the target when that auto_advance_if_due returns.
C25_ManualAdvanceUndoneAsStated ==
    PressAdvances =>
      \A d \in env.deltas :
        NextAutoAsStated(switch_a(G, TRUE, now, NoInput),
                         (now + d) % TICKS_PERIOD)

\* C25, amended: as above, but when the selection is due to be left the
\* index is the target unless the refresh the advance requests ran inside
\* auto_advance_if_due (no worker facility) and installed a list, in which
\* case the index is the one resolved against that list; in both cases the
\* manual advance is undone.
C25_ManualAdvanceUndone ==
    PressAdvances =>
      \A d \in env.deltas :
        NextAuto(switch_a(G, TRUE, now, NoInput), (now + d) % TICKS_PERIOD)

\* a press moved the index on to the entry without a known schedule, and
\* the next auto_advance_if_due took it back to the 09:00 entry
C25_UnknownEntryLeft ==
    /\ pc = "btnA"
    /\ last_button_state
    /\ ticks_diff(now, last_button_ms) \in env.deltas
    /\ last_rotate_ms = now
    /\ applied = "none"
    /\ svc_services = <<SvcA, SvcC>>
    /\ current_service_idx = 0

\* start_async_refresh would return True without starting anything, and no
\* worker is there to change that
HeldWithoutWorker ==
    /\ wpc = "idle"
    /\ pending_refresh_result # None \/ refresh_thread_running

\* every started fetch comes to write its result
StartedIsWritten == (wpc \in {"load", "write"}) ~> (wpc = "clear")

\* every started worker comes to clear the in-flight flag
StartedIsCleared == WorkerInFlight ~> (wpc = "idle" /\ ~refresh_thread_running)

\* a result in the mailbox leaves it only by being taken, and is taken
ResultIsTaken ==
    /\ [][(pending_refresh_result # None
            /\ pending_refresh_result' # pending_refresh_result)
           => (pc = "poll" /\ pending_refresh_result' = None)]_vars
    /\ (pending_refresh_result # None) ~> (pending_refresh_result = None)

\* the coordinator is never held for ever with no worker running
NeverHeldForEver == []<>(~HeldWithoutWorker)

\* C26: with the fetch terminating, the worker scheduled fairly and the
\* render loop iterating, every started background fetch has its result
\* written to the mailbox, its flag cleared and its result taken by a poll,
\* and start_async_refresh never answers True for ever with no worker
\* running.
C26_FetchCompletesAndIsTaken ==
    /\ StartedIsWritten
    /\ StartedIsCleared
    /\ ResultIsTaken
    /\ NeverHeldForEver
====
